---- MODULE Spec2Model ----
(***************************************************************************)
(* bed2gff: conversion of BED12 transcript records into GFF3 feature       *)
(* lines (src/src/lib.rs).  The pure functions of lib.rs are operators,    *)
(* the conversion run bed2gff() is a state machine.                        *)
(*                                                                         *)
(* Exon tables are functions over 0..exon_count-1, as the code indexes     *)
(* them.  Coordinates are BED coordinates (0-based, half open); an output  *)
(* line carries the 1-based closed interval the code formats.              *)
(***************************************************************************)
EXTENDS Integers, Sequences, FiniteSets, TLC

VARIABLES
    pc,          \* position of the run / of the operation under study
    input,       \* the lines of the BED file, in file order
    bed,         \* Vec<(chrom, start, line)> returned by bedsort
    idx,         \* number of entries of bed the for loop has consumed
    seen_genes,  \* HashSet<String> of bed2gff
    output,      \* the lines written to the output file, in order
    status,      \* exit status of the process (NoStatus while running)
    record,      \* the BedRecord handed to to_gtf / move_pos
    gene_line,   \* the gene_line argument of to_gtf
    pos,         \* move_pos: the pos argument
    dist,        \* move_pos: the dist argument
    moved,       \* move_pos(record, pos, dist)
    back,        \* move_pos(record, moved, -dist)
    found        \* the Codon returned by find_first_codon / find_last_codon

vars == <<pc, input, bed, idx, seen_genes, output, status, record, gene_line,
          pos, dist, moved, back, found>>

----------------------------------------------------------------------------
(* Bounds of the model *)

MaxPos == 6

\* One exon for every three positions (the length of a codon).
MaxExons == MaxPos \div 3

MaxLines == 2

MaxDist == 3

----------------------------------------------------------------------------
(* Values *)

NoOrdinal == -1

NoStatus == -1

ExitSuccess == 0

ExitUnmapped == 1

ExitPanic == 101

NoName == ""

SOURCE == "bed2gff"

Max(a, b) == IF a >= b THEN a ELSE b

Min(a, b) == IF a <= b THEN a ELSE b

Abs(a) == IF a >= 0 THEN a ELSE -a

\* Rust's % on i32: the remainder takes the sign of the dividend.
RustRem(a, b) == IF a >= 0 THEN a % b ELSE -((-a) % b)

----------------------------------------------------------------------------
(* Records *)

\* Exon tables with n exons: sorted, non-overlapping, each of positive length.
Geometries(n) ==
    { g \in [exon_start : [0..n-1 -> 0..MaxPos], exon_end : [0..n-1 -> 0..MaxPos]] :
        /\ \A i \in 0..n-1 : g.exon_start[i] < g.exon_end[i]
        /\ \A i \in 0..n-2 : g.exon_end[i] <= g.exon_start[i+1] }

\* A BED12 record: the transcript spans its blocks, the thick interval lies
\* inside the transcript.
MakeRecord(chrom, name, strand, n, g, cs, ce, frames) ==
    [ chrom       |-> chrom,
      name        |-> name,
      strand      |-> strand,
      tx_start    |-> g.exon_start[0],
      tx_end      |-> g.exon_end[n-1],
      cds_start   |-> cs,
      cds_end     |-> ce,
      exon_count  |-> n,
      exon_start  |-> g.exon_start,
      exon_end    |-> g.exon_end,
      exon_frames |-> frames ]

\* The frame hints of n exons.
Frames(n) == [0..n-1 -> -1..2]

\* The isoform-to-gene mapping file: t4 has no gene.
Isoforms == [ t1 |-> "g1", t2 |-> "g1", t3 |-> "g2" ]

----------------------------------------------------------------------------
(* Codon locator *)

Codon_new == [start |-> 0, end |-> 0, index |-> -1, start2 |-> 0, end2 |-> 0]

\* The continuation of a codon that has fewer than 3 bases in its first part.
CodonSplit(r, codon, exon) ==
    IF codon.end - codon.start < 3
    THEN IF exon + 1 = r.exon_count
         THEN codon
         ELSE LET need == 3 - (codon.end - codon.start)
              IN  IF (r.cds_end - r.cds_start) < need
                  THEN codon
                  ELSE [codon EXCEPT !.start2 = r.cds_start,
                                     !.end2 = r.cds_start + need]
    ELSE codon

\* The for loop returns at its first iteration unless the frame of exon 0 is
\* non-negative, and breaks there otherwise: exon is always 0.
find_first_codon(r) ==
    IF r.exon_frames[0] < 0
    THEN Codon_new
    ELSE LET exon == 0
             cds_exon_start == Max(r.exon_start[exon], r.cds_start)
             cds_exon_end == Min(r.exon_end[exon], r.cds_end)
             frame == IF r.strand = "+"
                      THEN r.exon_frames[exon]
                      ELSE RustRem(r.exon_frames[exon] + (cds_exon_end - cds_exon_start), 3)
         IN  IF frame # 0
             THEN Codon_new
             ELSE CodonSplit(r,
                    [Codon_new EXCEPT !.start = r.cds_start,
                                      !.end = r.cds_start + Min(r.cds_end - r.cds_start, 3),
                                      !.index = exon],
                    exon)

\* The reversed loop looks at the last exon only.
find_last_codon(r) ==
    IF r.exon_frames[r.exon_count - 1] < 0
    THEN Codon_new
    ELSE LET exon == r.exon_count - 1
             cds_exon_start == Max(r.exon_start[exon], r.cds_start)
             cds_exon_end == Min(r.exon_end[exon], r.cds_end)
             frame == IF r.strand = "-"
                      THEN r.exon_frames[exon]
                      ELSE RustRem(r.exon_frames[exon] + (cds_exon_end - cds_exon_start), 3)
         IN  IF frame # 0
             THEN Codon_new
             ELSE CodonSplit(r,
                    [Codon_new EXCEPT !.start = Max(r.cds_start, r.cds_end - 3),
                                      !.end = r.cds_end,
                                      !.index = exon],
                    exon)

\* Mutant of codon_complete: an empty codon counts as complete.
codon_complete_AtMost3(codon) ==
    ((codon.end - codon.start) + (codon.end2 - codon.start2)) <= 3

codon_complete(codon) ==
    ((codon.end - codon.start) + (codon.end2 - codon.start2)) = 3

----------------------------------------------------------------------------
(* Position translator *)

in_exon(r, p, exon) ==
    (r.exon_start[exon] <= p) /\ (p <= r.exon_end[exon])

\* The exon move_pos starts in: the first one whose closed interval holds p
\* (-1 when there is none).
FindExon(r, p) ==
    IF \E i \in 0..r.exon_count-1 : in_exon(r, p, i)
    THEN CHOOSE i \in 0..r.exon_count-1 :
            /\ in_exon(r, p, i)
            /\ \A j \in 0..i-1 : ~in_exon(r, p, j)
    ELSE -1

\* Mutant of StepBack: entering the previous exon consumes no step.
StepBack_NoStep(r, p, exon, steps) ==
    IF exon - 1 >= 0
    THEN [pos |-> r.exon_end[exon - 1] - 1, exon |-> exon - 1, steps |-> steps]
    ELSE [pos |-> p, exon |-> exon - 1, steps |-> steps]

\* One backward step of the walk that leaves the current exon.
StepBack(r, p, exon, steps) ==
    IF exon - 1 >= 0
    THEN [pos |-> r.exon_end[exon - 1] - 1, exon |-> exon - 1, steps |-> steps - 1]
    ELSE [pos |-> p, exon |-> exon - 1, steps |-> steps]

\* One forward step of the walk that leaves the current exon.
StepForth(r, p, exon, steps) ==
    IF exon + 1 < r.exon_count
    THEN [pos |-> r.exon_start[exon + 1], exon |-> exon + 1, steps |-> steps]
    ELSE [pos |-> p, exon |-> exon + 1, steps |-> steps]

\* The while loop of move_pos.
RECURSIVE Walk(_, _, _, _, _)
Walk(r, p, exon, steps, direction) ==
    IF ~(exon \in 0..r.exon_count-1 /\ steps > 0)
    THEN [pos |-> p, steps |-> steps]
    ELSE IF in_exon(r, p + direction, exon)
         THEN Walk(r, p + direction, exon, steps - 1, direction)
         ELSE LET s == IF direction >= 0
                       THEN StepForth(r, p, exon, steps)
                       ELSE StepBack(r, p, exon, steps)
              IN  Walk(r, s.pos, s.exon, s.steps, direction)

\* move_pos: ok is FALSE where the code panics (assertion, no exon, steps left).
move_pos(r, p, d) ==
    IF ~(r.tx_start <= p /\ p <= r.tx_end) \/ FindExon(r, p) = -1
    THEN [ok |-> FALSE, pos |-> p]
    ELSE LET w == Walk(r, p, FindExon(r, p), Abs(d), IF d >= 0 THEN 1 ELSE -1)
         IN  [ok |-> w.steps <= 0, pos |-> w.pos]

----------------------------------------------------------------------------
(* Line builders *)

Phase(frame) ==
    CASE frame = -1 \/ frame = -2 -> "."
      [] frame = 0 -> "0"
      [] frame = 1 -> "2"
      [] OTHER -> "1"

Prefix(feat_type) ==
    CASE feat_type = "exon" -> "exon"
      [] feat_type = "CDS" -> "CDS"
      [] feat_type = "five_prime_utr" -> "UTR5"
      [] feat_type = "three_prime_utr" -> "UTR3"
      [] feat_type = "start_codon" -> "start_codon"
      [] feat_type = "stop_codon" -> "stop_codon"

\* Mutant of Ordinal: the genomic index on both strands.
Ordinal_Genomic(r, exon) ==
    exon + 1

\* The exon_number attribute: counted from the 5' end of the transcript.
Ordinal(r, exon) ==
    IF r.strand = "-" THEN r.exon_count - exon ELSE exon + 1

build_gene_line(gene_name, r) ==
    [ chrom |-> r.chrom, source |-> SOURCE, feat |-> "gene",
      start |-> r.tx_start + 1, end |-> r.tx_end, strand |-> r.strand,
      phase |-> ".", id_prefix |-> "", name |-> NoName, gene |-> gene_name,
      exon_number |-> NoOrdinal ]

build_gtf_line(r, gene_name, feat_type, exon_start, exon_end, frame, exon) ==
    [ chrom |-> r.chrom, source |-> SOURCE, feat |-> feat_type,
      start |-> exon_start + 1, end |-> exon_end, strand |-> r.strand,
      phase |-> Phase(frame),
      id_prefix |-> IF feat_type = "transcript" THEN "" ELSE Prefix(feat_type),
      name |-> r.name, gene |-> gene_name,
      exon_number |-> IF feat_type # "transcript" /\ exon >= 0
                      THEN Ordinal(r, exon)
                      ELSE NoOrdinal ]

\* The three independent steps of write_features for exon i.
FirstUtr(i, r, gene_name, first_utr_end, frame) ==
    IF r.exon_start[i] < first_utr_end
    THEN << build_gtf_line(r, gene_name,
                IF r.strand = "+" THEN "five_prime_utr" ELSE "three_prime_utr",
                r.exon_start[i], Min(r.exon_end[i], first_utr_end), frame, -1) >>
    ELSE << >>

CdsPart(i, r, gene_name, cds_start, cds_end, frame) ==
    IF r.cds_start < r.exon_end[i] /\ r.exon_start[i] < r.cds_end
    THEN << build_gtf_line(r, gene_name, "CDS",
                Max(r.exon_start[i], cds_start), Min(r.exon_end[i], cds_end), frame, i) >>
    ELSE << >>

LastUtr(i, r, gene_name, last_utr_start, frame) ==
    IF r.exon_end[i] > last_utr_start
    THEN << build_gtf_line(r, gene_name,
                IF r.strand = "+" THEN "three_prime_utr" ELSE "five_prime_utr",
                Max(r.exon_start[i], last_utr_start), r.exon_end[i], frame, -1) >>
    ELSE << >>

write_features(i, r, gene_name, first_utr_end, cds_start, cds_end, last_utr_start, frame) ==
    FirstUtr(i, r, gene_name, first_utr_end, frame)
      \o CdsPart(i, r, gene_name, cds_start, cds_end, frame)
      \o LastUtr(i, r, gene_name, last_utr_start, frame)

\* The second line of a split codon, as the code calls build_gtf_line for it:
\* codon.start and codon.end again, codon.start2 in the frame slot and
\* (codon.end - codon.start) in the exon slot.
CodonSecondLine(r, gene_name, gene_type, codon) ==
    build_gtf_line(r, gene_name, gene_type, codon.start, codon.end,
                   codon.start2, codon.end - codon.start)

write_codon(r, gene_name, gene_type, codon) ==
    << build_gtf_line(r, gene_name, gene_type, codon.start, codon.end, 0, codon.index) >>
      \o IF codon.start2 < codon.end2
         THEN << CodonSecondLine(r, gene_name, gene_type, codon) >>
         ELSE << >>

----------------------------------------------------------------------------
(* Record assembler *)

\* Mutant of AdjustedCdsEnd: the stop codon is left in the coding span.
AdjustedCdsEnd_NoTrim(r, last_codon) ==
    [ok |-> TRUE, pos |-> r.cds_end]

\* Mutant of AdjustedCdsEnd: the end is moved by two bases only.
AdjustedCdsEnd_TwoBases(r, last_codon) ==
    IF r.strand = "+" /\ codon_complete(last_codon)
    THEN move_pos(r, last_codon.end, -2)
    ELSE [ok |-> TRUE, pos |-> r.cds_end]

\* cds_end as to_gtf adjusts it (lib.rs 406-408).
AdjustedCdsEnd(r, last_codon) ==
    IF r.strand = "+" /\ codon_complete(last_codon)
    THEN move_pos(r, last_codon.end, -3)
    ELSE [ok |-> TRUE, pos |-> r.cds_end]

\* cds_start as to_gtf adjusts it (lib.rs 410-412).
AdjustedCdsStart(r, first_codon) ==
    IF r.strand = "-" /\ codon_complete(first_codon)
    THEN move_pos(r, first_codon.start, 3)
    ELSE [ok |-> TRUE, pos |-> r.cds_start]

\* The exon loop of to_gtf from exon i on.
RECURSIVE ExonLines(_, _, _, _, _)
ExonLines(i, r, gene_name, cds_start, cds_end) ==
    IF i >= r.exon_count
    THEN << >>
    ELSE << build_gtf_line(r, gene_name, "exon", r.exon_start[i], r.exon_end[i], -1, i) >>
           \o (IF cds_start < cds_end
               THEN write_features(i, r, gene_name, r.cds_start, cds_start, cds_end,
                                   r.cds_end, r.exon_frames[i])
               ELSE << >>)
           \o ExonLines(i + 1, r, gene_name, cds_start, cds_end)

\* Mutant of CodonLines: the roles of the codons are not swapped on "-".
CodonLines_NoSwap(r, gene_name, first_codon, last_codon) ==
    (IF codon_complete(first_codon)
     THEN write_codon(r, gene_name, "start_codon", first_codon) ELSE << >>)
    \o (IF codon_complete(last_codon)
        THEN write_codon(r, gene_name, "stop_codon", last_codon) ELSE << >>)

\* The match on the strand that ends to_gtf.
CodonLines(r, gene_name, first_codon, last_codon) ==
    IF r.strand = "+"
    THEN (IF codon_complete(first_codon)
          THEN write_codon(r, gene_name, "start_codon", first_codon) ELSE << >>)
         \o (IF codon_complete(last_codon)
             THEN write_codon(r, gene_name, "stop_codon", last_codon) ELSE << >>)
    ELSE (IF codon_complete(last_codon)
          THEN write_codon(r, gene_name, "start_codon", last_codon) ELSE << >>)
         \o (IF codon_complete(first_codon)
             THEN write_codon(r, gene_name, "stop_codon", first_codon) ELSE << >>)

\* What to_gtf writes once the gene name and the boundaries are known.
GtfLines(r, gene_name, first_codon, last_codon, cds_start, cds_end, with_gene_line) ==
    (IF with_gene_line THEN << build_gene_line(gene_name, r) >> ELSE << >>)
      \o << build_gtf_line(r, gene_name, "transcript", r.tx_start, r.tx_end, -1, -1) >>
      \o ExonLines(0, r, gene_name, cds_start, cds_end)
      \o CodonLines(r, gene_name, first_codon, last_codon)

\* to_gtf: ok is FALSE where the code panics before it writes anything (the
\* unwrap of the gene lookup, move_pos); lines are the lines it writes.
to_gtf(r, isoforms, with_gene_line) ==
    LET first_codon == find_first_codon(r)
        last_codon == find_last_codon(r)
        cds_end == AdjustedCdsEnd(r, last_codon)
        cds_start == AdjustedCdsStart(r, first_codon)
    IN  IF r.name \notin DOMAIN isoforms \/ ~cds_end.ok \/ ~cds_start.ok
        THEN [ok |-> FALSE, lines |-> << >>]
        ELSE [ok |-> TRUE,
              lines |-> GtfLines(r, isoforms[r.name], first_codon, last_codon,
                                 cds_start.pos, cds_end.pos, with_gene_line)]

----------------------------------------------------------------------------
(* The lines of the BED file *)

\* The two parsers of bed.rs, each of which may reject a line: a "garbage"
\* line fails BedRecord::layer, a "badrec" line passes it and fails
\* BedRecord::new, an "ok" line passes both and yields rec.
BedRecord_layer(line) ==
    [ok |-> line.kind # "garbage", chrom |-> line.chrom, start |-> line.start, line |-> line]

BedRecord_new(line) ==
    [ok |-> line.kind = "ok", rec |-> line.rec]

NoRecord == [name |-> NoName]

Names == {"t1", "t2", "t3", "t4"}

\* One exon of one codon starting at a, fully coding.
CodonRecord(chrom, name, strand, a) ==
    MakeRecord(chrom, name, strand, 1,
               [exon_start |-> (0 :> a), exon_end |-> (0 :> a + 3)], a, a + 3, (0 :> 0))

\* Two one-base exons and a thick interval over both and the intron: the stop
\* codon found on "+" has fewer than 3 exonic bases before its end.
ShortRecord(chrom, name, a) ==
    MakeRecord(chrom, name, "+", 2,
               [exon_start |-> (0 :> a @@ 1 :> a + 2), exon_end |-> (0 :> a + 1 @@ 1 :> a + 3)],
               a, a + 3, (0 :> 0 @@ 1 :> 2))

RunRecords ==
    { CodonRecord(c, nm, s, a) : c \in 1..2, nm \in Names, s \in {"+", "-"}, a \in 0..1 }
    \cup { ShortRecord(c, nm, 0) : c \in 1..2, nm \in Names }

RunLines ==
    { [kind |-> "ok", chrom |-> r.chrom, start |-> r.tx_start, rec |-> r] : r \in RunRecords }
    \cup { [kind |-> "badrec", chrom |-> c, start |-> 0, rec |-> NoRecord] : c \in 1..2 }
    \cup { [kind |-> "garbage", chrom |-> 0, start |-> 0, rec |-> NoRecord] }

----------------------------------------------------------------------------
(* bedsort *)

\* The comparison of sort_by: chromosomes in natural order (a chromosome is
\* modelled by its number), then the start.
Before(a, b) ==
    \/ a.chrom < b.chrom
    \/ a.chrom = b.chrom /\ a.start < b.start

\* sort_by is stable: x goes behind the elements it does not precede.
RECURSIVE InsertSorted(_, _)
InsertSorted(x, s) ==
    IF s = << >>
    THEN << x >>
    ELSE IF Before(x, Head(s))
         THEN << x >> \o s
         ELSE << Head(s) >> \o InsertSorted(x, Tail(s))

RECURSIVE SortBy(_)
SortBy(s) ==
    IF s = << >>
    THEN << >>
    ELSE InsertSorted(s[Len(s)], SortBy(SubSeq(s, 1, Len(s) - 1)))

\* bedsort: Err at the first line BedRecord::layer rejects.
bedsort(lines) ==
    IF \E i \in DOMAIN lines : ~BedRecord_layer(lines[i]).ok
    THEN [ok |-> FALSE, val |-> << >>]
    ELSE [ok |-> TRUE,
          val |-> SortBy([i \in DOMAIN lines |->
                            [chrom |-> BedRecord_layer(lines[i]).chrom,
                             start |-> BedRecord_layer(lines[i]).start,
                             line  |-> lines[i]]])]

\* comments(): the preamble.
Preamble ==
    << [feat |-> "comment", text |-> "##gff-version 3"],
       [feat |-> "comment", text |-> "#provider: bed2gff"],
       [feat |-> "comment", text |-> "#version: 0.1.0"],
       [feat |-> "comment", text |-> "#contact: github.com/alejandrogzi/bed2gff"],
       [feat |-> "comment", text |-> "#date"] >>

----------------------------------------------------------------------------
(* The run of bed2gff *)

Init ==
    /\ pc = "start"
    /\ \E n \in 0..MaxLines : input \in [1..n -> RunLines]
    /\ bed = << >>
    /\ idx = 0
    /\ seen_genes = {}
    /\ output = << >>
    /\ status = NoStatus
    /\ record = NoRecord
    /\ gene_line = FALSE
    /\ pos = 0
    /\ dist = 0
    /\ moved = 0
    /\ back = 0
    /\ found = Codon_new

\* bedsort(input).unwrap() panics on a line it cannot parse; the output file
\* is not created yet.
StartPanic ==
    /\ pc = "start"
    /\ ~bedsort(input).ok
    /\ pc' = "panic"
    /\ status' = ExitPanic
    /\ UNCHANGED <<found, input, bed, idx, seen_genes, output, record, gene_line, pos, dist, moved, back>>

\* bedsort, get_isoforms, File::create, comments.
Start ==
    /\ pc = "start"
    /\ bedsort(input).ok
    /\ bed' = bedsort(input).val
    /\ output' = Preamble
    /\ pc' = "loop"
    /\ UNCHANGED <<found, input, idx, seen_genes, status, record, gene_line, pos, dist, moved, back>>

\* The entry the for loop takes next.
NextLine == bed[idx + 1].line

InLoop == pc = "loop" /\ idx < Len(bed)

\* Mutant of NeedsGeneLine: the set of seen genes is not consulted.
NeedsGeneLine_Always(seen, key) == TRUE

\* Whether to_gtf is asked for the gene line (lib.rs 512).
NeedsGeneLine(seen, key) == key \notin seen

\* BedRecord::new fails: the line is logged and skipped.
LoopSkip ==
    /\ InLoop
    /\ ~BedRecord_new(NextLine).ok
    /\ idx' = idx + 1
    /\ UNCHANGED <<found, pc, input, bed, seen_genes, output, status, record, gene_line, pos, dist, moved, back>>

\* Mutant of LoopUnmapped: the unmapped record is skipped like an unparsable one.
LoopUnmapped_Skip ==
    /\ InLoop
    /\ BedRecord_new(NextLine).ok
    /\ BedRecord_new(NextLine).rec.name \notin DOMAIN Isoforms
    /\ idx' = idx + 1
    /\ UNCHANGED <<found, pc, input, bed, seen_genes, output, status, record, gene_line, pos, dist, moved, back>>

\* The isoform has no gene: std::process::exit(1).
LoopUnmapped ==
    /\ InLoop
    /\ BedRecord_new(NextLine).ok
    /\ BedRecord_new(NextLine).rec.name \notin DOMAIN Isoforms
    /\ record' = BedRecord_new(NextLine).rec
    /\ pc' = "exit"
    /\ status' = ExitUnmapped
    /\ UNCHANGED <<found, input, bed, idx, seen_genes, output, gene_line, pos, dist, moved, back>>

\* The record is converted and its lines are written.
LoopConvert ==
    /\ InLoop
    /\ BedRecord_new(NextLine).ok
    /\ BedRecord_new(NextLine).rec.name \in DOMAIN Isoforms
    /\ LET rec == BedRecord_new(NextLine).rec
           key == Isoforms[rec.name]
           res == to_gtf(rec, Isoforms, NeedsGeneLine(seen_genes, key))
       IN  /\ res.ok
           /\ record' = rec
           /\ gene_line' = NeedsGeneLine(seen_genes, key)
           /\ seen_genes' = seen_genes \cup {key}
           /\ output' = output \o res.lines
    /\ idx' = idx + 1
    /\ UNCHANGED <<found, pc, input, bed, status, pos, dist, moved, back>>

\* to_gtf panics on the record, before it writes a line.
LoopPanic ==
    /\ InLoop
    /\ BedRecord_new(NextLine).ok
    /\ BedRecord_new(NextLine).rec.name \in DOMAIN Isoforms
    /\ LET rec == BedRecord_new(NextLine).rec
           key == Isoforms[rec.name]
       IN  /\ ~to_gtf(rec, Isoforms, NeedsGeneLine(seen_genes, key)).ok
           /\ record' = rec
           /\ gene_line' = NeedsGeneLine(seen_genes, key)
           /\ seen_genes' = seen_genes \cup {key}
    /\ pc' = "panic"
    /\ status' = ExitPanic
    /\ UNCHANGED <<found, input, bed, idx, output, pos, dist, moved, back>>

\* The loop is over: bed2gff returns Ok and main exits with success.
Finish ==
    /\ pc = "loop"
    /\ idx = Len(bed)
    /\ pc' = "done"
    /\ status' = ExitSuccess
    /\ UNCHANGED <<found, input, bed, idx, seen_genes, output, record, gene_line, pos, dist, moved, back>>

Next ==
    \/ StartPanic
    \/ Start
    \/ LoopSkip
    \/ LoopUnmapped
    \/ LoopConvert
    \/ LoopPanic
    \/ Finish

Spec == Init /\ [][Next]_vars

----------------------------------------------------------------------------
(* to_gtf on one record *)

InitGtf ==
    /\ pc = "gtf"
    /\ \E n \in 1..MaxExons : \E g \in Geometries(n) : \E s \in {"+", "-"} :
         \E cs \in g.exon_start[0]..g.exon_end[n-1] : \E ce \in cs..g.exon_end[n-1] :
         \E f \in Frames(n) :
            record = MakeRecord(1, "t1", s, n, g, cs, ce, f)
    /\ gene_line \in BOOLEAN
    /\ input = << >>
    /\ bed = << >>
    /\ idx = 0
    /\ seen_genes = {}
    /\ output = << >>
    /\ status = NoStatus
    /\ pos = 0
    /\ dist = 0
    /\ moved = 0
    /\ back = 0
    /\ found = Codon_new

\* The call returns: its lines are in the output.
GtfWrite ==
    /\ pc = "gtf"
    /\ LET res == to_gtf(record, Isoforms, gene_line)
       IN  /\ res.ok
           /\ output' = res.lines
    /\ pc' = "gtf_done"
    /\ UNCHANGED <<found, input, bed, idx, seen_genes, status, record, gene_line, pos, dist, moved, back>>

\* The call panics: nothing was written.
GtfPanic ==
    /\ pc = "gtf"
    /\ ~to_gtf(record, Isoforms, gene_line).ok
    /\ pc' = "gtf_panic"
    /\ status' = ExitPanic
    /\ UNCHANGED <<found, input, bed, idx, seen_genes, output, record, gene_line, pos, dist, moved, back>>

NextGtf == GtfWrite \/ GtfPanic

SpecGtf == InitGtf /\ [][NextGtf]_vars

----------------------------------------------------------------------------
(* move_pos there and back *)

InitMove ==
    /\ pc = "mv"
    /\ \E n \in 1..MaxExons : \E g \in Geometries(n) :
         record = MakeRecord(1, "t1", "+", n, g, g.exon_start[0], g.exon_end[n-1],
                             [i \in 0..n-1 |-> 0])
    /\ pos \in 0..MaxPos
    /\ dist \in -MaxDist..MaxDist
    /\ moved = 0
    /\ back = 0
    /\ found = Codon_new
    /\ gene_line = FALSE
    /\ input = << >>
    /\ bed = << >>
    /\ idx = 0
    /\ seen_genes = {}
    /\ output = << >>
    /\ status = NoStatus

\* move_pos(record, pos, dist) returns.
MoveForth ==
    /\ pc = "mv"
    /\ move_pos(record, pos, dist).ok
    /\ moved' = move_pos(record, pos, dist).pos
    /\ pc' = "mv_moved"
    /\ UNCHANGED <<found, input, bed, idx, seen_genes, output, status, record, gene_line, pos, dist, back>>

\* move_pos(record, pos, dist) panics.
MoveForthPanic ==
    /\ pc = "mv"
    /\ ~move_pos(record, pos, dist).ok
    /\ pc' = "mv_panic"
    /\ status' = ExitPanic
    /\ UNCHANGED <<found, input, bed, idx, seen_genes, output, record, gene_line, pos, dist, moved, back>>

\* move_pos(record, moved, -dist) is called on the result.
MoveBack ==
    /\ pc = "mv_moved"
    /\ LET res == move_pos(record, moved, -dist)
       IN  /\ back' = res.pos
           /\ pc' = IF res.ok THEN "mv_back" ELSE "mv_back_panic"
           /\ status' = IF res.ok THEN status ELSE ExitPanic
    /\ UNCHANGED <<found, input, bed, idx, seen_genes, output, record, gene_line, pos, dist, moved>>

NextMove == MoveForth \/ MoveForthPanic \/ MoveBack

SpecMove == InitMove /\ [][NextMove]_vars

----------------------------------------------------------------------------
(* The codon locator on one record *)

InitCodon ==
    /\ pc = "codon"
    /\ \E n \in 1..MaxExons : \E g \in Geometries(n) : \E s \in {"+", "-"} :
         \E cs \in g.exon_start[0]..g.exon_end[n-1] : \E ce \in cs..g.exon_end[n-1] :
         \E f \in Frames(n) :
            record = MakeRecord(1, "t1", s, n, g, cs, ce, f)
    /\ found = Codon_new
    /\ gene_line = FALSE
    /\ input = << >>
    /\ bed = << >>
    /\ idx = 0
    /\ seen_genes = {}
    /\ output = << >>
    /\ status = NoStatus
    /\ pos = 0
    /\ dist = 0
    /\ moved = 0
    /\ back = 0

\* find_first_codon(record) returns.
FindFirstCodon ==
    /\ pc = "codon"
    /\ found' = find_first_codon(record)
    /\ pc' = "first_codon"
    /\ UNCHANGED <<input, bed, idx, seen_genes, output, status, record, gene_line, pos, dist, moved, back>>

\* find_last_codon(record) returns.
FindLastCodon ==
    /\ pc = "codon"
    /\ found' = find_last_codon(record)
    /\ pc' = "last_codon"
    /\ UNCHANGED <<input, bed, idx, seen_genes, output, status, record, gene_line, pos, dist, moved, back>>

NextCodon == FindFirstCodon \/ FindLastCodon

SpecCodon == InitCodon /\ [][NextCodon]_vars

----------------------------------------------------------------------------
(* Reading the output *)

\* The lines of one feature type, in output order.
LinesOf(feat) == SelectSeq(output, LAMBDA l : l.feat = feat)

\* The spans of the lines of one feature type.
SpansOf(feat) ==
    { <<output[i].start, output[i].end>> : i \in { j \in DOMAIN output : output[j].feat = feat } }

\* The feature lines of the transcript, as <<type, start, end>>, the gene line aside.
FeatureSpans ==
    { <<output[i].feat, output[i].start, output[i].end>> :
        i \in { j \in DOMAIN output : output[j].feat # "gene" } }

NumFeatureLines == Cardinality({ j \in DOMAIN output : output[j].feat # "gene" })

UtrTypes == {"five_prime_utr", "three_prime_utr"}

CodonTypes == {"start_codon", "stop_codon"}

\* to_gtf has returned or panicked.
GtfOver == pc \in {"gtf_done", "gtf_panic"}

\* A single-exon record whose thick interval is the whole transcript, frame 0.
SingleExonFull(strand) ==
    /\ record.exon_count = 1
    /\ record.strand = strand
    /\ record.cds_start = record.tx_start
    /\ record.cds_end = record.tx_end
    /\ record.exon_frames[0] = 0

TxLen == record.tx_end - record.tx_start

----------------------------------------------------------------------------
(* C3 *)

\* C3 as stated, for the transcripts of two codons or more whose length is a
\* multiple of 3: a single-exon fully coding "+" transcript yields exactly a
\* transcript, an exon and a CDS line over [tx_start+1, tx_end] (CDS phase 0),
\* a start_codon over [tx_start+1, tx_start+3] and a stop_codon over
\* [tx_end-2, tx_end], and nothing else.
C3_AsStated ==
    (GtfOver /\ SingleExonFull("+") /\ TxLen >= 6 /\ TxLen % 3 = 0) =>
        /\ pc = "gtf_done"
        /\ NumFeatureLines = 5
        /\ FeatureSpans =
             { <<"transcript", record.tx_start + 1, record.tx_end>>,
               <<"exon", record.tx_start + 1, record.tx_end>>,
               <<"CDS", record.tx_start + 1, record.tx_end>>,
               <<"start_codon", record.tx_start + 1, record.tx_start + 3>>,
               <<"stop_codon", record.tx_end - 2, record.tx_end>> }
        /\ \A i \in DOMAIN output : output[i].feat = "CDS" => output[i].phase = "0"

\* The lines C3's transcript yields, by its length L = tx_end - tx_start.
C3_Expected ==
    { <<"transcript", record.tx_start + 1, record.tx_end>>,
      <<"exon", record.tx_start + 1, record.tx_end>> }
    \cup (IF TxLen >= 3
          THEN { <<"start_codon", record.tx_start + 1, record.tx_start + 3>> }
          ELSE {})
    \cup (IF TxLen >= 3 /\ TxLen % 3 = 0
          THEN { <<"stop_codon", record.tx_end - 2, record.tx_end>> }
          ELSE {})
    \cup (IF TxLen >= 3 /\ TxLen % 3 = 0
          THEN (IF TxLen > 3
                THEN { <<"CDS", record.tx_start + 1, record.tx_end - 3>> }
                ELSE {})
          ELSE { <<"CDS", record.tx_start + 1, record.tx_end>> })

\* C3 amended: a single-exon fully coding "+" transcript of length L yields a
\* transcript and an exon line over [tx_start+1, tx_end], no UTR line, and:
\* when L is a multiple of 3, a start_codon [tx_start+1, tx_start+3], a
\* stop_codon [tx_end-2, tx_end] and a CDS line [tx_start+1, tx_end-3] of
\* phase 0 that leaves the stop codon out (no CDS line when L = 3); when L is
\* no multiple of 3, no stop_codon, a CDS line [tx_start+1, tx_end], and the
\* start_codon when L >= 3.
C3_SingleExonPlus ==
    (GtfOver /\ SingleExonFull("+")) =>
        /\ pc = "gtf_done"
        /\ FeatureSpans = C3_Expected
        /\ NumFeatureLines = Cardinality(C3_Expected)
        /\ \A i \in DOMAIN output : output[i].feat = "CDS" => output[i].phase = "0"

\* A transcript of length 6 was written: its CDS line stops before the stop codon.
C3_Witness ==
    /\ pc = "gtf_done"
    /\ SingleExonFull("+")
    /\ TxLen = 6
    /\ <<"CDS", record.tx_start + 1, record.tx_end - 3>> \in FeatureSpans
    /\ <<"stop_codon", record.tx_end - 2, record.tx_end>> \in FeatureSpans

----------------------------------------------------------------------------
(* C4 *)

\* C4 as stated, for the transcripts that hold a codon (length >= 3): a
\* single-exon fully coding "-" transcript has its start_codon line at
\* [tx_end-2, tx_end] and its stop_codon line at [tx_start+1, tx_start+3].
C4_AsStated ==
    (GtfOver /\ SingleExonFull("-") /\ TxLen >= 3) =>
        /\ pc = "gtf_done"
        /\ SpansOf("start_codon") = { <<record.tx_end - 2, record.tx_end>> }
        /\ SpansOf("stop_codon") = { <<record.tx_start + 1, record.tx_start + 3>> }

\* C4 amended: on such a "-" transcript of length L >= 3 the start_codon line
\* is at the high end [tx_end-2, tx_end]; the stop_codon line is at the low end
\* [tx_start+1, tx_start+3] when L is a multiple of 3 and is not written
\* otherwise; with L < 3 neither codon is written.
C4_SingleExonMinus ==
    (GtfOver /\ SingleExonFull("-")) =>
        /\ pc = "gtf_done"
        /\ SpansOf("start_codon") =
             (IF TxLen >= 3 THEN { <<record.tx_end - 2, record.tx_end>> } ELSE {})
        /\ SpansOf("stop_codon") =
             (IF TxLen >= 3 /\ TxLen % 3 = 0
              THEN { <<record.tx_start + 1, record.tx_start + 3>> }
              ELSE {})
        /\ Len(LinesOf("start_codon")) = (IF TxLen >= 3 THEN 1 ELSE 0)
        /\ Len(LinesOf("stop_codon")) = (IF TxLen >= 3 /\ TxLen % 3 = 0 THEN 1 ELSE 0)

\* A "-" transcript of length 6 was written with both codons, start at the high end.
C4_Witness ==
    /\ pc = "gtf_done"
    /\ SingleExonFull("-")
    /\ TxLen = 6
    /\ SpansOf("start_codon") = { <<record.tx_end - 2, record.tx_end>> }
    /\ SpansOf("stop_codon") = { <<record.tx_start + 1, record.tx_start + 3>> }

----------------------------------------------------------------------------
(* C5 *)

AllFramesNoncoding == \A i \in 0..record.exon_count-1 : record.exon_frames[i] = -1

OnlyTranscriptAndExonLines ==
    \A i \in DOMAIN output : output[i].feat \in {"gene", "transcript", "exon"}

\* C5 as stated: a record whose exon_frames are all -1 yields, the gene line
\* aside, transcript and exon lines only, whatever cds_start <= cds_end are.
C5_AsStated ==
    (GtfOver /\ AllFramesNoncoding) =>
        /\ pc = "gtf_done"
        /\ OnlyTranscriptAndExonLines

\* C5 amended: a record whose exon_frames are all -1 yields no start_codon and
\* no stop_codon line on either strand; it yields transcript and exon lines
\* only when cds_start = cds_end, and at least one CDS or UTR line when
\* cds_start < cds_end.
C5_NoncodingFrames ==
    (GtfOver /\ AllFramesNoncoding) =>
        /\ pc = "gtf_done"
        /\ \A i \in DOMAIN output : output[i].feat \notin CodonTypes
        /\ (record.cds_start = record.cds_end) = OnlyTranscriptAndExonLines

\* A non-coding record with an empty thick interval and two exons was written.
C5_Witness ==
    /\ pc = "gtf_done"
    /\ AllFramesNoncoding
    /\ record.cds_start = record.cds_end
    /\ record.exon_count = 2
    /\ Len(LinesOf("exon")) = 2

----------------------------------------------------------------------------
(* C7 *)

\* C7: the transcript line precedes every exon, CDS, UTR and codon line (only
\* the gene line may precede it), there is one exon line per exon in genomic
\* order, and the exon ordinals count from the 5' end: 1, 2, ..., exon_count in
\* output order on "+", exon_count, ..., 2, 1 in output order on "-", so that
\* the exon of highest genomic index has ordinal 1 there.
C7_TranscriptFirstOrdinals ==
    (pc = "gtf_done") =>
        /\ Len(LinesOf("transcript")) = 1
        /\ \A i \in DOMAIN output : \A j \in DOMAIN output :
              (output[j].feat = "transcript" /\ i < j) => output[i].feat = "gene"
        /\ Len(LinesOf("exon")) = record.exon_count
        /\ \A k \in 1..Len(LinesOf("exon")) :
              /\ LinesOf("exon")[k].start = record.exon_start[k-1] + 1
              /\ LinesOf("exon")[k].end = record.exon_end[k-1]
              /\ LinesOf("exon")[k].exon_number =
                    (IF record.strand = "+" THEN k ELSE record.exon_count - k + 1)

\* A two-exon "-" transcript was written: its second exon line has ordinal 1.
C7_Witness ==
    /\ pc = "gtf_done"
    /\ record.strand = "-"
    /\ record.exon_count = 2
    /\ Len(LinesOf("exon")) = 2
    /\ LinesOf("exon")[2].exon_number = 1
    /\ LinesOf("CDS") # << >>

----------------------------------------------------------------------------
(* C9 *)

\* The codon find_first_codon returns is the only one that can be split; it is
\* written as start_codon on "+" and as stop_codon on "-".
SplitCodonWritten ==
    /\ pc = "gtf_done"
    /\ codon_complete(find_first_codon(record))
    /\ find_first_codon(record).start2 < find_first_codon(record).end2

FirstCodonType == IF record.strand = "+" THEN "start_codon" ELSE "stop_codon"

\* C9: a codon written with a non-empty secondary span yields two lines of its
\* feature type with the same exon ordinal, the first over [start+1, end], the
\* second over [start2+1, end2].
C9_SplitCodonTwoIntervals ==
    SplitCodonWritten =>
        /\ Len(LinesOf(FirstCodonType)) = 2
        /\ LinesOf(FirstCodonType)[1].start = find_first_codon(record).start + 1
        /\ LinesOf(FirstCodonType)[1].end = find_first_codon(record).end
        /\ LinesOf(FirstCodonType)[2].start = find_first_codon(record).start2 + 1
        /\ LinesOf(FirstCodonType)[2].end = find_first_codon(record).end2
        /\ LinesOf(FirstCodonType)[2].exon_number = LinesOf(FirstCodonType)[1].exon_number

----------------------------------------------------------------------------
(* C10 *)

\* Two closed intervals share a base.
Overlap(a, b) == a.start <= b.end /\ b.start <= a.end

\* C10: no CDS line of a transcript covers a base of a stop_codon line of it.
C10_StopCodonOutsideCds ==
    (pc = "gtf_done") =>
        \A i \in DOMAIN output : \A j \in DOMAIN output :
            (output[i].feat = "CDS" /\ output[j].feat = "stop_codon")
                => ~Overlap(output[i], output[j])

\* A "+" transcript of two exons with an intron between them was written
\* with a stop codon and a non-empty CDS line in each exon.
C10_Witness ==
    /\ pc = "gtf_done"
    /\ record.strand = "+"
    /\ record.exon_count = 2
    /\ record.exon_end[0] < record.exon_start[1]
    /\ Len(LinesOf("stop_codon")) = 1
    /\ Len(LinesOf("CDS")) = 2
    /\ \A k \in 1..2 : LinesOf("CDS")[k].start <= LinesOf("CDS")[k].end

----------------------------------------------------------------------------
(* C6 *)

MoveReturned == pc \in {"mv_back", "mv_back_panic"}

\* C6 as stated: whenever move_pos(record, pos, dist) returns pos',
\* move_pos(record, pos', -dist) returns pos.
C6_AsStated ==
    MoveReturned => (pc = "mv_back" /\ back = pos)

\* The exon the walk from pos starts in.
StartExon == FindExon(record, pos)

\* pos is the boundary of its exon that a walk of dist leaves through first.
AtLeavingBoundary ==
    \/ dist > 0 /\ pos = record.exon_end[StartExon]
    \/ dist < 0 /\ pos = record.exon_start[StartExon]

\* C6 amended: whenever move_pos(record, pos, dist) returns pos',
\* move_pos(record, pos', -dist) returns too, and it returns pos unless pos is
\* the boundary of its exon in the direction of the walk (pos = exon_end with
\* dist > 0, pos = exon_start with dist < 0): then it returns the coordinate
\* that faces pos across the intron (the start of the next exon, the end of
\* the previous one).  This holds for walks inside one exon and across introns.
C6_InverseOffBoundary ==
    MoveReturned =>
        /\ pc = "mv_back"
        /\ back = (IF dist > 0 /\ pos = record.exon_end[StartExon]
                   THEN record.exon_start[StartExon + 1]
                   ELSE IF dist < 0 /\ pos = record.exon_start[StartExon]
                        THEN record.exon_end[StartExon - 1]
                        ELSE pos)

\* A backward walk crossed an intron and the walk back returned to pos.
C6_Witness ==
    /\ pc = "mv_back"
    /\ dist < 0
    /\ ~AtLeavingBoundary
    /\ record.exon_count = 2
    /\ record.exon_end[0] < record.exon_start[1]
    /\ FindExon(record, pos) = 1
    /\ FindExon(record, moved) = 0
    /\ back = pos

----------------------------------------------------------------------------
(* C1 *)

\* The entries of bed the loop has converted.
Converted == { i \in 1..idx : BedRecord_new(bed[i].line).ok }

GeneOf(i) == Isoforms[bed[i].line.rec.name]

\* The first converted entry of gene g, in processing order.
FirstOf(g) ==
    CHOOSE i \in Converted :
        /\ GeneOf(i) = g
        /\ \A j \in Converted : GeneOf(j) = g => i <= j

\* The positions of the gene lines of g in the output.
GeneLinesOf(g) ==
    { k \in DOMAIN output : output[k].feat = "gene" /\ output[k].gene = g }

\* The gene line at k describes record r and stands right before r's
\* transcript line, and no line of its gene precedes it.
GeneLineHeads(k, r) ==
    /\ output[k].chrom = r.chrom
    /\ output[k].strand = r.strand
    /\ output[k].start = r.tx_start + 1
    /\ output[k].end = r.tx_end
    /\ k + 1 \in DOMAIN output
    /\ output[k + 1].feat = "transcript"
    /\ output[k + 1].name = r.name
    /\ output[k + 1].chrom = r.chrom
    /\ output[k + 1].strand = r.strand
    /\ output[k + 1].start = r.tx_start + 1
    /\ output[k + 1].end = r.tx_end
    /\ \A j \in 1..k-1 : output[j].feat # "comment" => output[j].gene # output[k].gene

\* C1: the entries are processed in sorted order (chromosome, then start); for
\* every gene some converted record maps to, the output holds exactly one gene
\* line of that gene, with the chrom, strand and [tx_start+1, tx_end] of the
\* first converted record of the gene, right before that record's transcript
\* line; and there is no gene line of any other gene.
C1_OneGeneLinePerGene ==
    /\ \A i \in DOMAIN bed : \A j \in DOMAIN bed : i < j => ~Before(bed[j], bed[i])
    /\ \A i \in Converted :
          /\ Cardinality(GeneLinesOf(GeneOf(i))) = 1
          /\ \A k \in GeneLinesOf(GeneOf(i)) :
                GeneLineHeads(k, bed[FirstOf(GeneOf(i))].line.rec)
    /\ \A k \in DOMAIN output :
          output[k].feat = "gene" => \E i \in Converted : GeneOf(i) = output[k].gene

\* Two records of one gene were converted, the one that comes second in the
\* file first (it sorts first), and the run ended with one gene line.
C1_Witness ==
    /\ pc = "done"
    /\ Len(input) = 2
    /\ Converted = {1, 2}
    /\ GeneOf(1) = GeneOf(2)
    /\ bed[1].line = input[2]
    /\ bed[1].line.rec.name # bed[2].line.rec.name
    /\ bed[1].line.rec.strand # bed[2].line.rec.strand
    /\ Len(LinesOf("gene")) = 1
    /\ Len(LinesOf("transcript")) = 2

----------------------------------------------------------------------------
(* C2 *)

\* The entries of bed whose record parses and has no gene.
Unmapped ==
    { i \in DOMAIN bed :
        /\ BedRecord_new(bed[i].line).ok
        /\ bed[i].line.rec.name \notin DOMAIN Isoforms }

FirstUnmapped == CHOOSE u \in Unmapped : \A v \in Unmapped : u <= v

\* C2: when bed holds a record without gene, the loop never goes past the
\* first such record u: the output holds the preamble and the lines of the
\* records before u only (one transcript line per converted record, no line of
\* an unmapped isoform), the run does not end in success, and once it has
\* reached u it has exited with status 1.
C2_UnmappedHalts ==
    (pc # "start" /\ Unmapped # {}) =>
        /\ idx < FirstUnmapped
        /\ SubSeq(output, 1, Len(Preamble)) = Preamble
        /\ Len(LinesOf("transcript")) = Cardinality(Converted)
        /\ \A k \in DOMAIN output :
              output[k].feat \notin {"comment", "gene"} => output[k].name \in DOMAIN Isoforms
        /\ pc # "done"
        /\ status # ExitSuccess
        /\ (pc = "exit") => (idx = FirstUnmapped - 1 /\ status = ExitUnmapped /\ status # 0)
        /\ (idx = FirstUnmapped - 1 /\ pc # "loop") => pc = "exit"

\* The run exited at an unmapped record that sorts before a mapped one: only
\* the preamble was written.
C2_Witness ==
    /\ pc = "exit"
    /\ status = ExitUnmapped
    /\ Len(bed) = 2
    /\ idx = 0
    /\ BedRecord_new(bed[2].line).ok
    /\ bed[2].line.rec.name \in DOMAIN Isoforms
    /\ output = Preamble

----------------------------------------------------------------------------
(* C8 *)

RunOver == pc \in {"done", "exit", "panic"}

\* The lines of the file that parse, have a gene and can be converted.
Convertible ==
    { i \in DOMAIN input :
        /\ input[i].kind = "ok"
        /\ input[i].rec.name \in DOMAIN Isoforms
        /\ to_gtf(input[i].rec, Isoforms, FALSE).ok }

\* Nothing but malformed lines stands in the way of the run: every line that
\* parses has a gene and can be converted.
OnlyMalformedTrouble ==
    \A i \in DOMAIN input : input[i].kind = "ok" => i \in Convertible

\* C8: in a run whose only trouble is malformed lines (lines that fail
\* BedRecord::layer or BedRecord::new) and that holds a well-formed line, the
\* malformed lines are skipped, the run ends in success and every other line
\* has its transcript line in the output.
C8_MalformedLineSkipped ==
    (RunOver /\ OnlyMalformedTrouble /\ Convertible # {}) =>
        /\ pc = "done"
        /\ Len(LinesOf("transcript")) = Cardinality(Convertible)
        /\ \A i \in Convertible :
              \E k \in DOMAIN output :
                 /\ output[k].feat = "transcript"
                 /\ output[k].name = input[i].rec.name
                 /\ output[k].chrom = input[i].rec.chrom
                 /\ output[k].start = input[i].rec.tx_start + 1

----------------------------------------------------------------------------
(* C11 *)

\* A codon locator has returned, with a non-empty secondary pair.
SplitCodonFound ==
    /\ pc \in {"first_codon", "last_codon"}
    /\ found.start2 < found.end2

\* The exons next to the one the codon names.
Neighbours == {found.index - 1, found.index + 1} \cap (0..record.exon_count - 1)

\* C11: a codon returned by find_first_codon or find_last_codon with a
\* non-empty secondary pair spans an exon boundary: its primary part stops at
\* a boundary of the exon named by index, its secondary part lies inside a
\* neighbouring exon, the two parts are disjoint, and a complete codon covers
\* 3 distinct bases.
C11_SplitCodonSpansBoundary ==
    SplitCodonFound =>
        /\ \/ found.end = record.exon_end[found.index]
           \/ found.start = record.exon_start[found.index]
        /\ \E e \in Neighbours :
              /\ record.exon_start[e] <= found.start2
              /\ found.end2 <= record.exon_end[e]
        /\ (found.start .. found.end - 1) \cap (found.start2 .. found.end2 - 1) = {}
        /\ codon_complete(found) =>
              Cardinality((found.start .. found.end - 1)
                            \cup (found.start2 .. found.end2 - 1)) = 3

----------------------------------------------------------------------------
(* C12 *)

\* The exon line under which line j was written: write_features(i, ...) runs
\* right after the exon line of exon i.
ExonLineBefore(j) ==
    CHOOSE k \in 1..j-1 :
        /\ output[k].feat = "exon"
        /\ \A m \in k+1..j-1 : output[m].feat # "exon"

\* C12: every CDS and UTR line written for an exon of a well-formed record
\* describes a non-empty interval inside that exon (start <= end,
\* start >= exon_start+1, end <= exon_end), also when to_gtf moved the CDS
\* boundary with move_pos.
C12_FeaturesInsideExon ==
    pc = "gtf_done" =>
        \A j \in DOMAIN output :
            output[j].feat \in {"CDS"} \cup UtrTypes =>
                /\ output[j].start <= output[j].end
                /\ output[j].start >= output[ExonLineBefore(j)].start
                /\ output[j].end <= output[ExonLineBefore(j)].end

====
